---- MODULE Spec2Model ----
(***************************************************************************)
(* Model of src/app.py: the Dash application that overlays fluorescence    *)
(* spectra and keeps two wavelength cursors per selected case.             *)
(*                                                                         *)
(* Wavelengths and intensities are integers in tenths (462.7 nm = 4627),   *)
(* the grid of the widgets' step=0.1.  Python sequences are 0-based; the   *)
(* TLA+ sequences are 1-based, so Python's s[j] is s[j + 1] here.          *)
(***************************************************************************)
EXTENDS Integers, Sequences, FiniteSets, TLC

VARIABLES
    files,           \* the data files of the case registry, as found on disk
    selected_cases,  \* 'case-selector'.value
    controls,        \* case keys of the children of 'controls-container'
    slider_values,   \* value of every cursor-slider, in layout order
    input_values,    \* value of every cursor-input, in layout order
    click_data,      \* 'spectra-plot'.clickData
    triggered,       \* ctx.triggered of the requested sync_inputs pass
    pending,         \* callbacks requested and not yet run
    figure,          \* case keys of the curves of 'spectra-plot'.figure
    sync_result,     \* outcome of the last sync_inputs pass
    plot_result,     \* outcome of the last update_plot pass
    events           \* number of user interactions so far

vars == <<files, selected_cases, controls, slider_values, input_values,
          click_data, triggered, pending, figure, sync_result, plot_result,
          events>>

-----------------------------------------------------------------------------
(* Bounds of the model *)

NumCases == 2      \* how many entries of the case registry the model keeps
MaxEvents == 2     \* how many user interactions a behaviour holds

(* Program constants *)

SliderMin == 4500       \* min=450
SliderMax == 7000       \* max=700
Cursor1Default == 4627  \* value=462.7
Cursor2Default == 5600  \* value=560

NaN == -1               \* a field pd.to_numeric(errors='coerce') turns to NaN
NoClick == -1           \* clickData is None

-----------------------------------------------------------------------------
(* Helpers *)

Abs(x) == IF x < 0 THEN -x ELSE x

Repeat(v, n) == [j \in 1..n |-> v]

Range(s) == {s[j] : j \in 1..Len(s)}

IndexOf(s, x) == CHOOSE j \in 1..Len(s) : s[j] = x

Remove(s, x) == SelectSeq(s, LAMBDA y : y # x)

-----------------------------------------------------------------------------
(* Case registry *)

CaseOrder == <<"Blank", "Case 1", "Case 2", "Case 3", "Case 4">>

cases == {CaseOrder[j] : j \in 1..NumCases}

-----------------------------------------------------------------------------
(* Data files.  A file is unreadable, or a sequence of rows of two fields; *)
(* a field that is not a number is NaN after pd.to_numeric.                *)

Row(nm, percentage) == [nm |-> nm, percentage |-> percentage]

Unreadable == [readable |-> FALSE, rows |-> <<>>]

File(rows) == [readable |-> TRUE, rows |-> rows]

FileSet ==
    { Unreadable,
      File(<<Row(NaN, NaN)>>),
      File(<<Row(4600, 10), Row(4654, 30), Row(5600, 20), Row(8000, 5)>>),
      File(<<Row(5000, 30), Row(NaN, 25), Row(6000, 20), Row(7000, 40)>>) }

(* DataFrame: the rows that survive, each with the index label read_csv    *)
(* gave it (0-based).  dropna() keeps the labels of the rows it keeps.     *)

None == [none |-> TRUE, frame |-> <<>>]

DataFrame(frame) == [none |-> FALSE, frame |-> frame]

RECURSIVE dropna(_, _)
dropna(rows, label) ==
    IF rows = <<>> THEN <<>>
    ELSE IF Head(rows).nm = NaN \/ Head(rows).percentage = NaN
         THEN dropna(Tail(rows), label + 1)
         ELSE <<[label |-> label, nm |-> Head(rows).nm,
                 percentage |-> Head(rows).percentage]>>
              \o dropna(Tail(rows), label + 1)

load_spectra(file) ==
    IF ~file.readable THEN None ELSE DataFrame(dropna(file.rows, 0))

empty(data) == data.frame = <<>>

(* (data['nm'] - cursor).abs().idxmin(): the LABEL of the first row whose  *)
(* distance to the cursor is least.                                        *)
idxmin(data, cursor) ==
    LET d(p) == Abs(data.frame[p].nm - cursor)
        first == CHOOSE p \in 1..Len(data.frame) :
                    /\ \A q \in 1..Len(data.frame) : d(p) <= d(q)
                    /\ \A q \in 1..(p - 1) : d(q) > d(p)
    IN  data.frame[first].label

(* data.iloc[idx]: the row at POSITION idx (0-based); out of bounds raises *)
(* IndexError.                                                             *)
iloc_in_bounds(data, idx) == idx < Len(data.frame)

iloc(data, idx) == data.frame[idx + 1]

-----------------------------------------------------------------------------
(* Controls *)

(* create_controls(case_key): the two cursors of one case, each an Input   *)
(* and a Slider holding the same default.                                  *)
create_controls(case_key) == <<Cursor1Default, Cursor2Default>>

RECURSIVE control_values(_)
control_values(children) ==
    IF children = <<>> THEN <<>>
    ELSE create_controls(Head(children)) \o control_values(Tail(children))

(* What a user sets a slider or a numeric entry to: the ends of the        *)
(* widgets' range.                                                         *)
UserValues == {SliderMin, SliderMax}

-----------------------------------------------------------------------------
(* sync_inputs *)

(* prop_id of a triggering property, by the component it belongs to (the   *)
(* case and cursor of a pattern-matching id are left out: the callback     *)
(* only looks for these substrings).                                       *)
SliderProp == "cursor-slider.value"
InputProp == "cursor-input.value"
ClickProp == "spectra-plot.clickData"

NoSync == [status |-> "none", triggered |-> <<>>, slider_values |-> <<>>,
           input_values |-> <<>>, click_data |-> NoClick,
           sliders |-> <<>>, inputs |-> <<>>]

(* Variants of sync_inputs, each with one plausible slip. *)

(* The fallback branch hands each representation its own values back. *)
sync_inputs_unsynced(sv, iv, click, trig) ==
    LET call == [NoSync EXCEPT !.triggered = trig, !.slider_values = sv,
                               !.input_values = iv, !.click_data = click]
    IN  IF trig = <<>> THEN [call EXCEPT !.status = "TypeError"]
        ELSE IF trig[1] = ClickProp
        THEN [call EXCEPT !.status = "ok",
                          !.sliders = Repeat(click, Len(sv)),
                          !.inputs = Repeat(click, Len(sv))]
        ELSE [call EXCEPT !.status = "ok", !.sliders = sv, !.inputs = iv]

(* A click moves only the first cursor. *)
sync_inputs_first_cursor(sv, iv, click, trig) ==
    LET call == [NoSync EXCEPT !.triggered = trig, !.slider_values = sv,
                               !.input_values = iv, !.click_data = click]
    IN  IF trig = <<>> THEN [call EXCEPT !.status = "TypeError"]
        ELSE IF trig[1] = ClickProp
        THEN LET updated_values ==
                     IF sv = <<>> THEN sv ELSE [sv EXCEPT ![1] = click]
             IN  [call EXCEPT !.status = "ok", !.sliders = updated_values,
                              !.inputs = updated_values]
        ELSE LET updated_values == IF trig[1] = InputProp THEN iv ELSE sv
             IN  [call EXCEPT !.status = "ok", !.sliders = updated_values,
                              !.inputs = updated_values]

(* 'cursor-input' is looked for in the whole of ctx.triggered, not in its  *)
(* first entry.                                                            *)
sync_inputs_any_entry(sv, iv, click, trig) ==
    LET call == [NoSync EXCEPT !.triggered = trig, !.slider_values = sv,
                               !.input_values = iv, !.click_data = click]
    IN  IF trig = <<>> THEN [call EXCEPT !.status = "TypeError"]
        ELSE IF trig[1] = ClickProp
        THEN [call EXCEPT !.status = "ok",
                          !.sliders = Repeat(click, Len(sv)),
                          !.inputs = Repeat(click, Len(sv))]
        ELSE LET updated_values ==
                     IF InputProp \in Range(trig) THEN iv ELSE sv
             IN  [call EXCEPT !.status = "ok", !.sliders = updated_values,
                              !.inputs = updated_values]

(* sync_inputs(slider_values, input_values, click_data) under              *)
(* dash.callback_context.triggered = trig.                                 *)
sync_inputs(sv, iv, click, trig) ==
    LET call == [NoSync EXCEPT !.triggered = trig, !.slider_values = sv,
                               !.input_values = iv, !.click_data = click]
    IN  IF trig = <<>>
        THEN \* trigger_id = None: "'spectra-plot.clickData' in None"
             [call EXCEPT !.status = "TypeError"]
        ELSE LET trigger_id == trig[1] IN
             IF trigger_id = ClickProp
             THEN LET updated_values == Repeat(click, Len(sv))
                  IN  [call EXCEPT !.status = "ok",
                                   !.sliders = updated_values,
                                   !.inputs = updated_values]
             ELSE LET updated_values ==
                          IF trigger_id = InputProp THEN iv ELSE sv
                  IN  [call EXCEPT !.status = "ok",
                                   !.sliders = updated_values,
                                   !.inputs = updated_values]

-----------------------------------------------------------------------------
(* update_plot *)

NoPlot == [status |-> "none", line |-> 0, slider_values |-> <<>>,
           selected_cases |-> <<>>, traces |-> <<>>, diff_outputs |-> <<>>]

(* First loop: cursor_map[case_key] = {1: slider_values[2i],               *)
(* 2: slider_values[2i + 1]}, i the position of the case (0-based).        *)
cursor_map_in_bounds(sv, selected) == 2 * Len(selected) <= Len(sv)

cursor_map(sv, selected) ==
    [case_key \in Range(selected) |->
        LET cursor_start == (IndexOf(selected, case_key) - 1) * 2
        IN  <<sv[cursor_start + 1], sv[cursor_start + 2]>>]

(* Second loop, from position k on; acc is the figure and diff_outputs so  *)
(* far.                                                                    *)
RECURSIVE plot_cases(_, _, _, _, _)
plot_cases(k, selected, cmap, fs, acc) ==
    IF k > Len(selected) THEN [acc EXCEPT !.status = "ok"]
    ELSE
      LET case_key == selected[k] IN
      IF case_key \notin cases
      THEN plot_cases(k + 1, selected, cmap, fs, acc)
      ELSE
        LET data == load_spectra(fs[case_key]) IN
        IF data.none \/ empty(data)
        THEN plot_cases(k + 1, selected, cmap, fs, acc)
        ELSE
          LET cursor1 == cmap[case_key][1]
              cursor2 == cmap[case_key][2]
              idx1 == idxmin(data, cursor1)
              idx2 == idxmin(data, cursor2)
          IN
          IF ~iloc_in_bounds(data, idx1) \/ ~iloc_in_bounds(data, idx2)
          THEN [acc EXCEPT !.status = "IndexError", !.line = 171]
          ELSE
            LET i1 == iloc(data, idx1).percentage
                i2 == iloc(data, idx2).percentage
                trace == [case |-> case_key, cursor1 |-> cursor1,
                          cursor2 |-> cursor2, i1 |-> i1, i2 |-> i2]
                diff_output == [dl |-> Abs(cursor2 - cursor1),
                                di |-> Abs(i2 - i1)]
            IN  plot_cases(k + 1, selected, cmap, fs,
                           [acc EXCEPT !.traces = Append(@, trace),
                                       !.diff_outputs = Append(@, diff_output)])

(* Variant of update_plot: the cursor positions are counted over the cases  *)
(* that are drawn, not over the selection.                                 *)
update_plot_drawn_positions(sv, selected, fs) ==
    LET call == [NoPlot EXCEPT !.slider_values = sv,
                               !.selected_cases = selected]
        drawn == SelectSeq(selected,
                     LAMBDA c : ~load_spectra(fs[c]).none
                                /\ ~empty(load_spectra(fs[c])))
    IN  IF ~cursor_map_in_bounds(sv, selected)
        THEN [call EXCEPT !.status = "IndexError", !.line = 142]
        ELSE plot_cases(1, selected, cursor_map(sv, drawn), fs, call)

update_plot(sv, selected, fs) ==
    LET call == [NoPlot EXCEPT !.slider_values = sv,
                               !.selected_cases = selected]
    IN  IF ~cursor_map_in_bounds(sv, selected)
        THEN [call EXCEPT !.status = "IndexError", !.line = 142]
        ELSE plot_cases(1, selected, cursor_map(sv, selected), fs, call)

-----------------------------------------------------------------------------
(* The application: the browser holds the layout, the user acts on it, and *)
(* each requested callback runs as one step.                               *)

Init ==
    /\ files \in [cases -> FileSet]
    /\ selected_cases = <<"Blank">>
    /\ controls = <<>>
    /\ slider_values = <<>>
    /\ input_values = <<>>
    /\ click_data = NoClick
    /\ triggered = <<>>
    /\ pending = {"update_controls", "sync_inputs"}
    /\ figure = <<>>
    /\ sync_result = NoSync
    /\ plot_result = NoPlot
    /\ events = 0

ClickPending == "sync_inputs" \in pending /\ ClickProp \in Range(triggered)

Trigger(prop) ==
    IF "sync_inputs" \notin pending THEN <<prop>>
    ELSE IF prop \in Range(triggered) THEN triggered
    ELSE Append(triggered, prop)

(* The user ticks or unticks a case of the checklist. *)
ToggleCase(c) ==
    /\ events < MaxEvents
    /\ selected_cases' = IF c \in Range(selected_cases)
                         THEN Remove(selected_cases, c)
                         ELSE Append(selected_cases, c)
    /\ pending' = pending \cup {"update_controls"}
    /\ events' = events + 1
    /\ UNCHANGED <<files, controls, slider_values, input_values, click_data,
                   triggered, figure, sync_result, plot_result>>

(* The user drags the slider at position p to v. *)
MoveSlider(p, v) ==
    /\ events < MaxEvents
    /\ ~ClickPending
    /\ p \in 1..Len(slider_values)
    /\ v # slider_values[p]
    /\ slider_values' = [slider_values EXCEPT ![p] = v]
    /\ triggered' = Trigger(SliderProp)
    /\ pending' = pending \cup {"sync_inputs"}
    /\ events' = events + 1
    /\ UNCHANGED <<files, selected_cases, controls, input_values, click_data,
                   figure, sync_result, plot_result>>

(* The user types v into the numeric entry at position p. *)
EditInput(p, v) ==
    /\ events < MaxEvents
    /\ ~ClickPending
    /\ p \in 1..Len(input_values)
    /\ v # input_values[p]
    /\ input_values' = [input_values EXCEPT ![p] = v]
    /\ triggered' = Trigger(InputProp)
    /\ pending' = pending \cup {"sync_inputs"}
    /\ events' = events + 1
    /\ UNCHANGED <<files, selected_cases, controls, slider_values, click_data,
                   figure, sync_result, plot_result>>

(* The wavelengths the data files hold. *)
SamplePoints ==
    UNION { { f.rows[j].nm : j \in 1..Len(f.rows) } : f \in FileSet } \ {NaN}

(* The x of the points the figure shows. *)
FigurePoints ==
    UNION { { r.nm : r \in Range(load_spectra(files[figure[j]]).frame) }
            : j \in 1..Len(figure) }

(* The user clicks a point of a plotted curve. *)
ClickChart(x) ==
    /\ events < MaxEvents
    /\ "sync_inputs" \notin pending
    /\ x \in FigurePoints
    /\ click_data' = x
    /\ triggered' = <<ClickProp>>
    /\ pending' = pending \cup {"sync_inputs"}
    /\ events' = events + 1
    /\ UNCHANGED <<files, selected_cases, controls, slider_values,
                   input_values, figure, sync_result, plot_result>>

(* update_controls(selected_cases) runs and its children replace the       *)
(* controls; the new sliders and entries trigger the other two callbacks.  *)
update_controls(selected) == selected

UpdateControls ==
    /\ "update_controls" \in pending
    /\ controls' = update_controls(selected_cases)
    /\ slider_values' = control_values(controls')
    /\ input_values' = control_values(controls')
    /\ IF controls' = <<>>
       THEN /\ triggered' = triggered
            /\ pending' = (pending \ {"update_controls"}) \cup {"update_plot"}
       ELSE /\ IF ClickPending
               THEN triggered' = triggered
               ELSE triggered' \in {<<SliderProp, InputProp>>,
                                    <<InputProp, SliderProp>>}
            /\ pending' = (pending \ {"update_controls"})
                              \cup {"sync_inputs", "update_plot"}
    /\ UNCHANGED <<files, selected_cases, click_data, figure, sync_result,
                   plot_result, events>>

(* One reconciliation pass. *)
SyncInputs ==
    /\ "sync_inputs" \in pending
    /\ sync_result' = sync_inputs(slider_values, input_values, click_data,
                                  triggered)
    /\ IF sync_result'.status = "ok"
       THEN /\ slider_values' = sync_result'.sliders
            /\ input_values' = sync_result'.inputs
            /\ pending' = (pending \ {"sync_inputs"}) \cup {"update_plot"}
       ELSE /\ UNCHANGED <<slider_values, input_values>>
            /\ pending' = pending \ {"sync_inputs"}
    /\ triggered' = <<>>
    /\ UNCHANGED <<files, selected_cases, controls, click_data, figure,
                   plot_result, events>>

(* One recomposition of the plot; it runs once the sliders it reads are    *)
(* not about to be rewritten by a requested reconciliation.                *)
UpdatePlot ==
    /\ "update_plot" \in pending
    /\ "sync_inputs" \notin pending
    /\ plot_result' = update_plot(slider_values, selected_cases, files)
    /\ figure' = IF plot_result'.status = "ok"
                 THEN [j \in 1..Len(plot_result'.traces) |->
                          plot_result'.traces[j].case]
                 ELSE figure
    /\ pending' = pending \ {"update_plot"}
    /\ UNCHANGED <<files, selected_cases, controls, slider_values,
                   input_values, click_data, triggered, sync_result, events>>

Next ==
    \/ \E c \in cases : ToggleCase(c)
    \/ \E p \in 1..(2 * NumCases), v \in UserValues : MoveSlider(p, v)
    \/ \E p \in 1..(2 * NumCases), v \in UserValues : EditInput(p, v)
    \/ \E x \in SamplePoints : ClickChart(x)
    \/ UpdateControls
    \/ SyncInputs
    \/ UpdatePlot

Spec == Init /\ [][Next]_vars

-----------------------------------------------------------------------------
(* Properties *)

SyncRan == sync_result.status # "none"
PlotRan == plot_result.status # "none"

InDomain(v) == SliderMin <= v /\ v <= SliderMax

(* The selected cases whose spectrum loads with at least one sample. *)
Available(selected) ==
    SelectSeq(selected, LAMBDA c : ~load_spectra(files[c]).none
                                   /\ ~empty(load_spectra(files[c])))

(* The sample a cursor is nearest to: the first, in sequence order, of     *)
(* those at the least distance.                                            *)
nearest_sample(data, cursor) ==
    LET d(p) == Abs(data.frame[p].nm - cursor)
        first == CHOOSE p \in 1..Len(data.frame) :
                    /\ \A q \in 1..Len(data.frame) : d(p) <= d(q)
                    /\ \A q \in 1..(p - 1) : d(q) > d(p)
    IN  data.frame[first]

(* C1: a reconciliation pass triggered by a slider change, an entry change *)
(* or a chart click returns, and the slider sequence and the numeric-entry *)
(* sequence it returns are equal; so whenever no pass is requested the     *)
(* sliders and the entries of the layout hold the same values.             *)
C1_SyncEqual ==
    /\ (SyncRan /\ sync_result.triggered # <<>>) =>
           /\ sync_result.status = "ok"
           /\ sync_result.sliders = sync_result.inputs
    /\ "sync_inputs" \notin pending => slider_values = input_values

C1_Witness ==
    /\ sync_result.status = "ok"
    /\ sync_result.slider_values # sync_result.input_values
    /\ sync_result.sliders = sync_result.inputs
    /\ "sync_inputs" \notin pending
    /\ slider_values = input_values

(* C2: whenever update_plot gets past its cursor map, every lookup         *)
(* succeeds and the intensity used for each cursor of each drawn case is   *)
(* that of the first sample nearest to the cursor.                         *)
C2_NearestFirst ==
    (PlotRan /\ plot_result.line # 142) =>
        /\ plot_result.status = "ok"
        /\ \A j \in 1..Len(plot_result.traces) :
              LET t == plot_result.traces[j]
                  data == load_spectra(files[t.case])
              IN  /\ t.i1 = nearest_sample(data, t.cursor1).percentage
                  /\ t.i2 = nearest_sample(data, t.cursor2).percentage

(* C3: a pass triggered by a chart click at w returns, for both            *)
(* representations, w once per active cursor (two per case that has        *)
(* controls), whatever the values were.                                    *)
C3_ClickBroadcast ==
    /\ Len(slider_values) = 2 * Len(controls)
    /\ Len(input_values) = 2 * Len(controls)
    /\ (SyncRan /\ sync_result.triggered # <<>>
               /\ sync_result.triggered[1] = ClickProp) =>
           LET k == Len(sync_result.slider_values)
               w == sync_result.click_data
           IN  /\ sync_result.status = "ok"
               /\ sync_result.sliders = Repeat(w, k)
               /\ sync_result.inputs = Repeat(w, k)

C3_Witness ==
    /\ sync_result.status = "ok"
    /\ sync_result.triggered = <<ClickProp>>
    /\ Len(sync_result.slider_values) = 4
    /\ sync_result.slider_values # sync_result.sliders
    /\ slider_values = Repeat(click_data, 4)
    /\ input_values = Repeat(click_data, 4)

(* C4: every cursor value, in the layout, returned by sync_inputs or read  *)
(* by update_plot, lies in [450, 700].                                     *)
C4_InDomain ==
    /\ \A p \in 1..Len(slider_values) : InDomain(slider_values[p])
    /\ \A p \in 1..Len(input_values) : InDomain(input_values[p])
    /\ \A p \in 1..Len(sync_result.sliders) : InDomain(sync_result.sliders[p])
    /\ \A p \in 1..Len(sync_result.inputs) : InDomain(sync_result.inputs[p])
    /\ \A p \in 1..Len(plot_result.slider_values) :
          InDomain(plot_result.slider_values[p])

(* C5 as stated: in a pass without a chart click, the entries decide only  *)
(* when no slider change is among the triggers; with a slider change among *)
(* them, in any position, the sliders decide.                              *)
C5_SliderWins ==
    (sync_result.status = "ok" /\ ClickProp \notin Range(sync_result.triggered)) =>
        LET authoritative ==
                IF SliderProp \in Range(sync_result.triggered)
                THEN sync_result.slider_values
                ELSE sync_result.input_values
        IN  /\ sync_result.sliders = authoritative
            /\ sync_result.inputs = authoritative

(* C5 amended: in a pass without a chart click, the first entry of the     *)
(* trigger list decides: the entries when it is a numeric-entry change,    *)
(* the sliders when it is a slider change.                                 *)
C5_FirstTriggerWins ==
    (sync_result.status = "ok" /\ ClickProp \notin Range(sync_result.triggered)) =>
        LET authoritative ==
                IF sync_result.triggered[1] = InputProp
                THEN sync_result.input_values
                ELSE sync_result.slider_values
        IN  /\ sync_result.sliders = authoritative
            /\ sync_result.inputs = authoritative

C5_Witness ==
    /\ sync_result.status = "ok"
    /\ sync_result.triggered = <<InputProp, SliderProp>>
    /\ sync_result.slider_values # sync_result.input_values
    /\ sync_result.sliders = sync_result.input_values
    /\ sync_result.inputs = sync_result.input_values

(* C6: whenever update_plot gets past its cursor map it returns, with one  *)
(* curve and one delta entry per selected case whose spectrum loaded with  *)
(* at least one sample, in selection order, and none for the others.       *)
C6_OnePerAvailable ==
    (PlotRan /\ plot_result.line # 142) =>
        LET drawn == Available(plot_result.selected_cases) IN
        /\ plot_result.status = "ok"
        /\ Len(plot_result.diff_outputs) = Len(drawn)
        /\ Len(plot_result.traces) = Len(drawn)
        /\ \A j \in 1..Len(plot_result.traces) :
              plot_result.traces[j].case = drawn[j]

(* C7: a case that update_plot draws, at position i of the selection       *)
(* (0-based), has its markers at the slider values 2i and 2i + 1 and their *)
(* distance as its delta-wavelength.                                       *)
C7_PositionalCursors ==
    plot_result.status = "ok" =>
        /\ Len(plot_result.diff_outputs) = Len(plot_result.traces)
        /\ \A j \in 1..Len(plot_result.traces) :
              LET t == plot_result.traces[j]
                  i == IndexOf(plot_result.selected_cases, t.case) - 1
                  v1 == plot_result.slider_values[2 * i + 1]
                  v2 == plot_result.slider_values[2 * i + 2]
              IN  /\ t.case \in Range(plot_result.selected_cases)
                  /\ t.cursor1 = v1
                  /\ t.cursor2 = v2
                  /\ plot_result.diff_outputs[j].dl = Abs(v2 - v1)

C7_Witness ==
    /\ plot_result.status = "ok"
    /\ Len(plot_result.selected_cases) = 2
    /\ Available(plot_result.selected_cases) = <<plot_result.selected_cases[2]>>
    /\ Len(plot_result.traces) = 1
    /\ plot_result.traces[1].case = plot_result.selected_cases[2]
    /\ plot_result.slider_values[3] # plot_result.slider_values[1]
    /\ plot_result.traces[1].cursor1 = plot_result.slider_values[3]
    /\ plot_result.traces[1].cursor2 = plot_result.slider_values[4]

(* C8: every reconciliation pass returns a pair of sequences, each as long *)
(* as the list of active cursors, whatever triggered it.                   *)
C8_AlwaysReturns ==
    SyncRan =>
        /\ sync_result.status = "ok"
        /\ Len(sync_result.sliders) = Len(sync_result.slider_values)
        /\ Len(sync_result.inputs) = Len(sync_result.slider_values)

(* C9: when update_controls runs after a selection change, the cursors of  *)
(* every case that had controls and is still selected keep their values.   *)
C9_KeptCursorsKeepValues ==
    [][ ("update_controls" \in pending /\ "update_controls" \notin pending') =>
          \A c \in Range(controls) \cap Range(controls') :
              LET j == 2 * (IndexOf(controls, c) - 1)
                  i == 2 * (IndexOf(controls', c) - 1)
              IN  /\ slider_values'[i + 1] = slider_values[j + 1]
                  /\ slider_values'[i + 2] = slider_values[j + 2]
                  /\ input_values'[i + 1] = input_values[j + 1]
                  /\ input_values'[i + 2] = input_values[j + 2] ]_vars

(* C10: update_plot always receives two slider values per selected case.   *)
C10_TwoPerSelected ==
    PlotRan =>
        Len(plot_result.slider_values) = 2 * Len(plot_result.selected_cases)

====
